---- MODULE Spec2Model ----
(***************************************************************************)
(* A model of moove (src/src/lib.rs): one run of try_main, from the        *)
(* collection of the sources, through the edit/redo loop of                *)
(* operations_from and the validation of is_operational, to the two-step   *)
(* execution of execute_move on a file system.                             *)
(*                                                                         *)
(* Representation.                                                         *)
(*  - A text (String) is a sequence of tokens: SEP is the path separator,  *)
(*    WS a whitespace character, any other token is one whole path         *)
(*    component (a name, "." or ".."), but for a name that ends with a     *)
(*    whitespace character: that one is its name token followed by WS.     *)
(*  - A path (Path/PathBuf) is [root, comps]: what Path::components()      *)
(*    yields, which is what Path equality compares.                        *)
(*  - The file system maps the absolute location of every existing entry   *)
(*    (a sequence of names, <<>> is the root directory) to its kind and    *)
(*    to the identity of its content (the place it was at initially).      *)
(*  - target_family = "unix".                                              *)
(***************************************************************************)
EXTENDS Naturals, Integers, Sequences, FiniteSets, TLC

VARIABLES
    args,        \* CommandLine
    fs,          \* the file system
    sources,     \* try_main: sources
    operations,  \* operations_from: operations
    text,        \* operations_from: the text edit::edit returned last, as its
                 \* lines, if the round was accepted
    edits,       \* number of calls of edit::edit so far
    reject,      \* the rejection of the last edit round, if any
    answer,      \* the last answer of prompt_redo
    pc,          \* position in try_main
    i,           \* try_main: index of the operation being executed
    step,        \* execute_move: the step to do next for operation i
    processed,   \* try_main: processed
    error,       \* the error try_main returns
    given,       \* normalize: the path it is called with
    result       \* normalize: the path it returned, once called

vars == <<args, fs, sources, operations, text, edits, reject, answer,
          pc, i, step, processed, error, given, result>>

----------------------------------------------------------------------------
(* Bounds *)

\* The editor is invoked at most MaxEdits times in a run.
MaxEdits == 2

\* The longest path normalize is called with on its own, in components.
MaxComponents == 3

----------------------------------------------------------------------------
(* Texts *)

SEP == "/"
WS == " "

\* SEPARATORS: '/' and '\\' on every platform
SEPARATORS == {SEP, "\\"}

Last(s) == s[Len(s)]
Front(s) == SubSeq(s, 1, Len(s) - 1)

RECURSIVE TrimEndMatches(_, _)
TrimEndMatches(s, cs) ==
    IF s # <<>> /\ Last(s) \in cs THEN TrimEndMatches(Front(s), cs) ELSE s

RECURSIVE TrimStartMatches(_, _)
TrimStartMatches(s, cs) ==
    IF s # <<>> /\ Head(s) \in cs THEN TrimStartMatches(Tail(s), cs) ELSE s

\* str::trim
Trim(s) == TrimStartMatches(TrimEndMatches(s, {WS}), {WS})

\* str::contains / str::ends_with for a single character
Contains(s, c) == \E k \in 1..Len(s) : s[k] = c
EndsWith(s, c) == s # <<>> /\ Last(s) = c

----------------------------------------------------------------------------
(* Paths: std::path *)

\* The name a text starts with, up to the next separator, and what follows.
RECURSIVE NameFrom(_)
NameFrom(s) == IF s = <<>> \/ Head(s) = SEP THEN "" ELSE Head(s) \o NameFrom(Tail(s))

RECURSIVE AfterName(_)
AfterName(s) == IF s = <<>> \/ Head(s) = SEP THEN s ELSE AfterName(Tail(s))

RECURSIVE ComponentsFrom(_, _, _)
ComponentsFrom(s, root, acc) ==
    IF s = <<>> THEN acc
    ELSE IF Head(s) = SEP THEN ComponentsFrom(Tail(s), root, acc)
    ELSE LET c == NameFrom(s) IN
         IF c = "." /\ (root \/ acc # <<>>)
         THEN ComponentsFrom(AfterName(s), root, acc)
         ELSE ComponentsFrom(AfterName(s), root, Append(acc, c))

\* PathBuf::from(text), seen through Path::components(): repeated separators
\* and "." are dropped, except a "." that starts a relative path.
PathFrom(s) ==
    LET root == s # <<>> /\ Head(s) = SEP
    IN [root |-> root, comps |-> ComponentsFrom(s, root, <<>>)]

EmptyPath == [root |-> FALSE, comps |-> <<>>]

IsEmptyPath(p) == ~p.root /\ p.comps = <<>>

\* Path::parent is None for the root and for the empty path.
HasParent(p) == p.comps # <<>>
Parent(p) == [p EXCEPT !.comps = Front(@)]

\* Path::file_name is None unless the last component is a normal one.
HasFileName(p) == p.comps # <<>> /\ Last(p.comps) \notin {".", ".."}
FileName(p) == Last(p.comps)

\* Path::join / PathBuf::push with a single relative component
Join(p, c) == [p EXCEPT !.comps = Append(@, c)]

\* Path::ancestors: the path itself, its parent, ... down to "/" or "".
Ancestors(p) ==
    { [root |-> p.root, comps |-> SubSeq(p.comps, 1, k)] : k \in 0..Len(p.comps) }

\* The names that exist with a whitespace character appended.
SpacedNames == { "b" }

\* The tokens of a name.
NameTokens(c) ==
    IF \E n \in SpacedNames : c = n \o WS
    THEN <<CHOOSE n \in SpacedNames : c = n \o WS, WS>>
    ELSE <<c>>

RECURSIVE JoinTokens(_)
JoinTokens(cs) ==
    IF cs = <<>> THEN <<>>
    ELSE IF Len(cs) = 1 THEN NameTokens(Head(cs))
    ELSE NameTokens(Head(cs)) \o <<SEP>> \o JoinTokens(Tail(cs))

\* Path::to_str / to_string_lossy of a path built by push
ToText(p) == (IF p.root THEN <<SEP>> ELSE <<>>) \o JoinTokens(p.comps)

RECURSIVE NormalizeFrom(_, _)
NormalizeFrom(normalized, rest) ==
    IF rest = <<>> THEN normalized
    ELSE LET component == Head(rest) IN
         IF component = ".."
         THEN IF HasParent(normalized)                      \* normalized.pop()
              THEN NormalizeFrom(Parent(normalized), Tail(rest))
              ELSE NormalizeFrom(Join(normalized, component), Tail(rest))
         ELSE NormalizeFrom(Join(normalized, component), Tail(rest))

normalize(path) ==
    NormalizeFrom([root |-> path.root, comps |-> <<>>], path.comps)

----------------------------------------------------------------------------
(* The file system *)

\* std::env::current_dir()
Cwd == <<"w">>
current_dir == [root |-> TRUE, comps |-> Cwd]

RECURSIVE Walk(_, _)
Walk(at, rest) ==
    IF rest = <<>> THEN at
    ELSE LET c == Head(rest) IN
         IF c = "." THEN Walk(at, Tail(rest))
         ELSE IF c = ".." THEN Walk(IF at = <<>> THEN at ELSE Front(at), Tail(rest))
         ELSE Walk(Append(at, c), Tail(rest))

\* The location a path names for a system call made in Cwd.  (The paths the
\* program passes have ".." only in front, where it is resolved from an
\* existing directory.)
Resolve(p) == Walk(IF p.root THEN <<>> ELSE Cwd, p.comps)

IsPrefix(a, b) == Len(a) <= Len(b) /\ SubSeq(b, 1, Len(a)) = a

Under(f, at) == { q \in DOMAIN f : IsPrefix(at, q) }

IsDirAt(f, at) == at \in DOMAIN f /\ f[at].kind = "dir"
IsFileAt(f, at) == at \in DOMAIN f /\ f[at].kind = "file"

\* Path::exists: false for the empty path
Exists(f, p) == ~IsEmptyPath(p) /\ Resolve(p) \in DOMAIN f

\* Path::is_dir
IsDir(f, p) == ~IsEmptyPath(p) /\ IsDirAt(f, Resolve(p))

NewDir == [kind |-> "dir", id |-> <<"(new)">>]

Entry(k, at) == [kind |-> k, id |-> at]

InitFs ==
    LET dirs  == { <<>>, <<"w">>, <<"w", "d">>, <<"w", "d", "p">>, <<"w", "e">> }
        files == { <<"w", "a">>, <<"w", "b ">>, <<"w", "t">>,
                   <<"w", "d", "p", "g">>, <<"w", "d", "t">> }
    IN [ at \in dirs \cup files |-> Entry(IF at \in dirs THEN "dir" ELSE "file", at) ]

----------------------------------------------------------------------------
(* File system calls.  Each yields [ok, fs]: whether it succeeded and the   *)
(* file system it leaves.                                                  *)

Ok(f) == [ok |-> TRUE, fs |-> f]
Err(f) == [ok |-> FALSE, fs |-> f]

\* The entries of f, with the subtree at `from` taken out.
Without(f, from) == [ at \in DOMAIN f \ Under(f, from) |-> f[at] ]

\* The location under `to` that corresponds to `at` under `from`.
Rebase(at, from, to) == to \o SubSeq(at, Len(from) + 1, Len(at))

\* The missing directories on the way to `at`, `at` included.
MissingTo(f, at) == { SubSeq(at, 1, k) : k \in 0..Len(at) } \ DOMAIN f

\* std::fs::create_dir_all(p): Ok at once for the empty path; fails when a
\* file is on the way.
create_dir_all(f, p) ==
    IF IsEmptyPath(p) THEN Ok(f)
    ELSE LET at == Resolve(p)
             missing == MissingTo(f, at)
         IN IF \E k \in 0..Len(at) : IsFileAt(f, SubSeq(at, 1, k))
            THEN Err(f)
            ELSE Ok([ q \in DOMAIN f \cup missing |->
                        IF q \in missing THEN NewDir ELSE f[q] ])

\* std::fs::rename(from, to) (rename(2)): an existing file, or an existing
\* empty directory, at `to` is replaced by an entry of the same kind.
rename(f, from, to) ==
    LET a == Resolve(from)
        b == Resolve(to)
        moved == [ q \in (DOMAIN f \ (Under(f, a) \cup Under(f, b)))
                          \cup { Rebase(x, a, b) : x \in Under(f, a) } |->
                     IF IsPrefix(b, q) THEN f[Rebase(q, b, a)] ELSE f[q] ]
    IN  IF IsEmptyPath(from) \/ IsEmptyPath(to) \/ a \notin DOMAIN f THEN Err(f)
        ELSE IF a = <<>> \/ b = <<>> \/ ~IsDirAt(f, Front(b)) THEN Err(f)
        ELSE IF a = b THEN Ok(f)
        ELSE IF IsPrefix(a, b) \/ IsPrefix(b, a) THEN Err(f)
        ELSE IF b \notin DOMAIN f THEN Ok(moved)
        ELSE IF f[a].kind # f[b].kind THEN Err(f)
        ELSE IF f[b].kind = "dir" /\ Under(f, b) # {b} THEN Err(f)
        ELSE Ok(moved)

\* std::fs::copy(from, to): `from` must be a file; a file at `to` is
\* overwritten.
copy(f, from, to) ==
    LET a == Resolve(from)
        b == Resolve(to)
    IN  IF IsEmptyPath(from) \/ IsEmptyPath(to) \/ ~IsFileAt(f, a) THEN Err(f)
        ELSE IF b = <<>> \/ ~IsDirAt(f, Front(b)) \/ IsDirAt(f, b) THEN Err(f)
        ELSE IF a = b THEN Ok(f)
        ELSE Ok([ q \in DOMAIN f \cup {b} |-> IF q = b THEN f[a] ELSE f[q] ])

----------------------------------------------------------------------------
(* fs_extra, with CopyOptions::default() (overwrite and skip_exist false,   *)
(* copy_inside and content_only false).  A call yields a set of [ok, fs]:   *)
(* a failed call stops at the first item it cannot transfer, and the order  *)
(* in which a directory is read is not specified.                           *)

\* fs_extra::file::copy / move_file(from, to): fails when `to` exists.
TransferFile(f, a, b, remove) ==
    IF ~IsFileAt(f, a) \/ b \in DOMAIN f \/ ~IsDirAt(f, Front(b)) THEN { Err(f) }
    ELSE LET copied == [ q \in DOMAIN f \cup {b} |-> IF q = b THEN f[a] ELSE f[q] ]
         IN { Ok(IF remove THEN Without(copied, a) ELSE copied) }

\* fs_extra::dir::copy / move_dir(from, to), `b` being to.join(dir_name):
\* every directory under `from` is created at its place under `b` unless
\* something exists there already, every file is transferred with
\* file::copy / move_file, and move_dir ends with remove(from).
TransferDir(f, a, b, remove) ==
    LET srcs == Under(f, a)
        dirs == { x \in srcs : f[x].kind = "dir" }
        files == srcs \ dirs
        T(x) == Rebase(x, a, b)
        blocked(x) == T(x) \notin DOMAIN f
                      /\ \/ IsFileAt(f, Front(T(x)))
                         \/ (x = a /\ Front(b) \notin DOMAIN f)
        made == { x \in dirs : T(x) \notin DOMAIN f /\ ~blocked(x) }
        f1 == [ q \in DOMAIN f \cup { T(x) : x \in made } |->
                  IF q \in DOMAIN f THEN f[q]
                  ELSE f[CHOOSE x \in made : T(x) = q] ]
        fails(x) == T(x) \in DOMAIN f1 \/ ~IsDirAt(f1, Front(T(x)))
        good == { x \in files : ~fails(x) }
        With(S) == LET added == [ q \in DOMAIN f1 \cup { T(x) : x \in S } |->
                                    IF q \in DOMAIN f1 THEN f1[q]
                                    ELSE f[CHOOSE x \in S : T(x) = q] ]
                   IN IF remove
                      THEN [ q \in DOMAIN added \ S |-> added[q] ]
                      ELSE added
    IN  IF \E x \in dirs : blocked(x) THEN { Err(f1) }
        ELSE IF good # files THEN { Err(With(S)) : S \in SUBSET good }
        ELSE { Ok(IF remove THEN Without(With(files), a) ELSE With(files)) }

\* fs_extra::move_items(&[item], to) and fs_extra::copy_items(&[item], to)
TransferItems(f, item, to, remove) ==
    LET a == Resolve(item)
        b == Resolve(Join(to, FileName(item)))
    IN  IF IsEmptyPath(item) \/ a \notin DOMAIN f \/ ~HasFileName(item) THEN { Err(f) }
        ELSE IF IsDirAt(f, a) THEN TransferDir(f, a, b, remove)
        ELSE TransferFile(f, a, b, remove)

move_items(f, item, to) == TransferItems(f, item, to, TRUE)
copy_items(f, item, to) == TransferItems(f, item, to, FALSE)

----------------------------------------------------------------------------
(* Source Collector: sources_from, list_files, put_source *)

Failed(msg) == [ok |-> FALSE, error |-> msg]

\* glob::glob(arg) for a pattern without wildcard: the path, if it exists.
glob(f, arg) == IF Exists(f, PathFrom(arg)) THEN <<PathFrom(arg)>> ELSE <<>>

\* list_files without the bail of lines 151-153.
RECURSIVE list_files_from_unchecked(_, _, _)
list_files_from_unchecked(f, patterns, paths) ==
    IF patterns = <<>> THEN [ok |-> TRUE, paths |-> paths]
    ELSE LET globbed == glob(f, Head(patterns)) IN
         list_files_from_unchecked(f, Tail(patterns),
                paths \o [k \in 1..Len(globbed) |-> ToText(normalize(globbed[k]))])

RECURSIVE list_files_from(_, _, _)
list_files_from(f, patterns, paths) ==
    IF patterns = <<>> THEN [ok |-> TRUE, paths |-> paths]
    ELSE LET globbed == glob(f, Head(patterns)) IN
         IF globbed = <<>> THEN Failed("Failed to access")
         ELSE list_files_from(f, Tail(patterns),
                paths \o [k \in 1..Len(globbed) |-> ToText(normalize(globbed[k]))])

list_files(f, patterns) == list_files_from(f, patterns, <<>>)

\* Names that start with '.'
HiddenNames == { ".h" }

is_hidden(file_path) == HasFileName(file_path) /\ FileName(file_path) \in HiddenNames

\* absolute(path): the canonical absolute path of an existing entry
absolute(path) == [root |-> TRUE, comps |-> Resolve(path)]

\* put_source without the loop of lines 204-211.
put_source_without_dedup(f, srcs, path, a) ==
    LET abs == absolute(path)
        new_path == IF a.absolute THEN abs ELSE path
        new_src == [ text |-> TrimEndMatches(ToText(new_path), SEPARATORS),
                     path |-> new_path,
                     abs |-> abs,
                     meta |-> f[Resolve(new_path)].kind ]
    IN  IF ~HasParent(abs) THEN Failed("Source should not be the root directory")
        ELSE IF ~a.with_hidden /\ is_hidden(abs) THEN [ok |-> TRUE, sources |-> srcs]
        ELSE [ok |-> TRUE, sources |-> Append(srcs, new_src)]

put_source(f, srcs, path, a) ==
    LET abs == absolute(path)
        new_path == IF a.absolute THEN abs ELSE path
        new_src == [ text |-> TrimEndMatches(ToText(new_path), SEPARATORS),
                     path |-> new_path,
                     abs |-> abs,
                     meta |-> f[Resolve(new_path)].kind ]
    IN  IF ~HasParent(abs) THEN Failed("Source should not be the root directory")
        ELSE IF ~a.with_hidden /\ is_hidden(abs) THEN [ok |-> TRUE, sources |-> srcs]
        ELSE IF \E k \in 1..Len(srcs) : srcs[k].abs = new_src.abs
             THEN Failed("Duplicated source")
             ELSE [ok |-> TRUE, sources |-> Append(srcs, new_src)]

\* The order of natord::compare on the names of the model
NameOrder == << ".h", "a", "b", "b ", "d", "e", "g", "n", "p", "t", "w", "x", "y" >>
Rank(name) == CHOOSE k \in 1..Len(NameOrder) : NameOrder[k] = name

\* The children read_dir(path) lists, as entry.path(), sorted.
RECURSIVE SortedChildren(_, _)
SortedChildren(path, names) ==
    IF names = {} THEN <<>>
    ELSE LET first == CHOOSE n \in names : \A m \in names : Rank(n) <= Rank(m)
         IN <<Join(path, first)>> \o SortedChildren(path, names \ {first})

read_dir(f, path) ==
    LET at == Resolve(path)
    IN SortedChildren(path, { Last(q) : q \in { x \in DOMAIN f : Len(x) = Len(at) + 1
                                                              /\ IsPrefix(at, x) } })

RECURSIVE put_sources(_, _, _, _)
put_sources(f, srcs, paths, a) ==
    IF paths = <<>> THEN [ok |-> TRUE, sources |-> srcs]
    ELSE LET r == put_source(f, srcs, Head(paths), a)
         IN IF r.ok THEN put_sources(f, r.sources, Tail(paths), a) ELSE r

RECURSIVE sources_loop(_, _, _, _)
sources_loop(f, srcs, paths, a) ==
    IF paths = <<>> THEN [ok |-> TRUE, sources |-> srcs]
    ELSE LET p == TrimEndMatches(Head(paths), SEPARATORS)
             path == PathFrom(p)
         IN IF ~Exists(f, path) THEN Failed("Failed to access")
            ELSE IF IsFileAt(f, Resolve(path)) \/ a.directory
            THEN LET r == put_source(f, srcs, path, a)
                 IN IF r.ok THEN sources_loop(f, r.sources, Tail(paths), a) ELSE r
            ELSE LET r == put_sources(f, srcs, read_dir(f, path), a)
                 IN IF ~r.ok THEN r
                    ELSE IF r.sources = <<>> THEN Failed("Directory is empty")
                    ELSE sources_loop(f, r.sources, Tail(paths), a)

sources_from(f, a) ==
    LET listed == list_files(f, a.paths)
    IN IF listed.ok THEN sources_loop(f, <<>>, listed.paths, a) ELSE listed

----------------------------------------------------------------------------
(* Validation Engine: is_operational *)

Operation(src, line) ==
    [ src |-> src, dst |-> [text |-> line, path |-> normalize(PathFrom(line))] ]

\* is_operational with the check of lines 396-404 left out.
is_operational_without_containment(f, ops, new_operation) ==
    LET src == new_operation.src
        dst == new_operation.dst
    IN  IF EndsWith(dst.text, SEP) /\ src.meta \in {"file", "symlink"}
        THEN "Missing file name"
        ELSE IF \E k \in 1..Len(ops) : ops[k].dst.path = dst.path
        THEN "Duplicated destination"
        ELSE IF Exists(f, dst.path)
        THEN "Destination exists"
        ELSE IF src.path \in Ancestors(dst.path)
        THEN "Destination should not be included in source"
        ELSE "ok"

\* is_operational with the check of lines 405-407 left out.
is_operational_without_exists(f, ops, new_operation) ==
    LET src == new_operation.src
        dst == new_operation.dst
    IN  IF EndsWith(dst.text, SEP) /\ src.meta \in {"file", "symlink"}
        THEN "Missing file name"
        ELSE IF \E k \in 1..Len(ops) : ops[k].dst.path = dst.path
        THEN "Duplicated destination"
        ELSE IF \E k \in 1..Len(ops) : dst.path \in Ancestors(ops[k].dst.path)
        THEN "Destination should not be included in other destination"
        ELSE IF src.path \in Ancestors(dst.path)
        THEN "Destination should not be included in source"
        ELSE "ok"

\* "ok", or the reason for which new_operation is refused.
is_operational(f, ops, new_operation) ==
    LET src == new_operation.src
        dst == new_operation.dst
    IN  IF EndsWith(dst.text, SEP) /\ src.meta \in {"file", "symlink"}
        THEN "Missing file name"
        ELSE IF \E k \in 1..Len(ops) : ops[k].dst.path = dst.path
        THEN "Duplicated destination"
        ELSE IF \E k \in 1..Len(ops) : dst.path \in Ancestors(ops[k].dst.path)
        THEN "Destination should not be included in other destination"
        ELSE IF Exists(f, dst.path)
        THEN "Destination exists"
        ELSE IF src.path \in Ancestors(dst.path)
        THEN "Destination should not be included in source"
        ELSE "ok"

----------------------------------------------------------------------------
(* Edit Session and Operation Builder: operations_from *)

\* The text handed to the editor: one line per source.
SerializedLine(f, src) ==
    IF IsDir(f, src.path) /\ ~EndsWith(src.text, SEP) THEN Append(src.text, SEP)
    ELSE src.text

InitialText(f, srcs) == [k \in 1..Len(srcs) |-> SerializedLine(f, srcs[k])]

\* The lines of an edited text, were blank lines kept as empty lines.
RECURSIVE ParseLines_keeping_blanks(_)
ParseLines_keeping_blanks(edited) ==
    IF edited = <<>> THEN <<>>
    ELSE <<TrimEndMatches(Trim(Head(edited)), SEPARATORS)>>
         \o ParseLines_keeping_blanks(Tail(edited))

\* The lines of an edited text: blank lines dropped, the others trimmed of
\* surrounding whitespace and of trailing separators.
RECURSIVE ParseLines(_)
ParseLines(edited) ==
    IF edited = <<>> THEN <<>>
    ELSE LET line == Trim(Head(edited)) IN
         IF line = <<>> THEN ParseLines(Tail(edited))
         ELSE <<TrimEndMatches(line, SEPARATORS)>> \o ParseLines(Tail(edited))

\* A rejection: its kind, the line it is about, and the message (the reason
\* and the text it names).
NoReject == [kind |-> "none", line |-> 0, reason |-> "ok", text |-> <<>>]

\* The for loop over sources.iter().zip(lines.iter()), from pair k on.
RECURSIVE Fold(_, _, _, _, _)
Fold(f, srcs, lns, ops, k) ==
    IF k > Len(srcs) \/ k > Len(lns) THEN [operations |-> ops, reject |-> NoReject]
    ELSE LET new_operation == Operation(srcs[k], lns[k])
             dst_path == new_operation.dst.path
         IN IF dst_path = srcs[k].path \/ dst_path = srcs[k].abs
            THEN Fold(f, srcs, lns, ops, k + 1)
            ELSE LET verdict == is_operational(f, ops, new_operation)
                 IN IF verdict # "ok"
                    THEN [operations |-> ops,
                          reject |-> [kind |-> "conflict", line |-> k, reason |-> verdict,
                                      text |-> lns[k]]]
                    ELSE Fold(f, srcs, lns, Append(ops, new_operation), k + 1)

\* One pass of the 'redo loop body on the text the editor returned.
EditRound(f, srcs, a, ops, edited) ==
    LET lns == ParseLines(edited)
    IN  IF Len(lns) # Len(srcs)
        THEN [operations |-> ops,
              reject |-> [kind |-> "count", line |-> 0,
                          reason |-> "Number of lines does not match the original one",
                          text |-> <<>>]]
        ELSE Fold(f, srcs, lns, ops, 1)

\* Where operations_from would go, did it prompt in strict mode as well.
AfterRound_prompting(a, r) ==
    IF r.reject.kind = "none" THEN "exec" ELSE "prompt"

\* Where operations_from goes after a round.
AfterRound(a, r) ==
    IF r.reject.kind = "none" THEN "exec"
    ELSE IF ~a.oops THEN "prompt"
    ELSE "error"

----------------------------------------------------------------------------
(* Execution Engine: execute_move *)

\* dst_parent; the unwrap panics when dst.path has no parent.
DstParentPanics(o) == Contains(o.dst.text, SEP) /\ ~HasParent(o.dst.path)
dst_parent(o) ==
    IF Contains(o.dst.text, SEP) THEN Parent(o.dst.path) ELSE current_dir

\* The guard of the relocate step.
NeedsRelocate(o) ==
    /\ HasParent(o.src.path)
    /\ ~IsEmptyPath(Parent(o.src.path))
    /\ Parent(o.src.path) # dst_parent(o)

\* The file_name unwraps of the rename step.
RenamePanics(o) == ~HasFileName(o.src.path) \/ ~HasFileName(o.dst.path)

\* The guard of the rename step, and its two paths.
NeedsRename(o) == FileName(o.src.path) # FileName(o.dst.path)
RenameFrom(o) == Join(dst_parent(o), FileName(o.src.path))
RenameTo(o) == Join(dst_parent(o), FileName(o.dst.path))

----------------------------------------------------------------------------
(* The inputs of a run *)

Args(paths, directory, abs, mode, oops) ==
    [ paths |-> paths, directory |-> directory, absolute |-> abs,
      with_hidden |-> FALSE, copy |-> mode = "copy", dry_run |-> mode = "dry_run",
      oops |-> oops ]

\* The command lines of the model.
ArgChoices ==
    { Args(<< <<"d">> >>, FALSE, abs, mode, oops) :
        abs \in BOOLEAN, mode \in {"move", "copy", "dry_run"}, oops \in BOOLEAN }
    \cup
    { Args(<< <<"a">>, <<"d">> >>, TRUE, FALSE, "copy", FALSE) }
    \cup
    { Args(ps, TRUE, FALSE, "move", FALSE) :
        ps \in { << <<"d", SEP, "t">>, <<"d", SEP, "p">> >>, << <<"a">>, <<"d">> >>,
                 << <<"b", WS>> >> } }
    \cup
    \* overlapping patterns, a pattern that matches nothing, the root
    { Args(ps, directory, FALSE, "move", FALSE) :
        ps \in { << <<"d">>, <<"d", SEP, "t">> >>,
                 << <<"d", SEP, "t">>, <<".", SEP, "d", SEP, "t">> >>,
                 << <<"a">>, <<"n">> >>,
                 << <<SEP>> >>,
                 << <<"a">>, <<SEP, "w", SEP, "..">> >> },
        directory \in BOOLEAN }
    \cup
    \* an empty directory, alone and after a pattern that gives a Source
    { Args(ps, FALSE, FALSE, "move", FALSE) :
        ps \in { << <<"e">> >>, << <<"a">>, <<"e">> >> } }

\* The lines the user may type, besides leaving a line as it is.
TypedLines ==
    { <<"x">>,
      <<"x", SEP>>,
      <<WS, "x", SEP, "g">>,
      <<"d", SEP, "p", SEP, "n">>,
      <<"x", SEP, "y", SEP, "d">>,
      <<"d", SEP, "..", SEP, "x">>,
      <<".", SEP, "x">>,
      <<"d", SEP, "t">>,
      <<"d">> }

\* The texts the editor may return for the sources: any choice of one line
\* per source, and some texts with a blank line, a line less or a line more.
EditorTexts(f, srcs) ==
    LET initial == InitialText(f, srcs)
        choices == TypedLines \cup { initial[k] : k \in 1..Len(srcs) }
    IN  [1..Len(srcs) -> choices]
        \cup { <<initial[1], <<WS>>>> \o Tail(initial),
               <<<<"x">>, <<WS>>>> \o Tail(initial),
               Tail(initial),
               Append(initial, <<"x">>) }

----------------------------------------------------------------------------
(* try_main *)

Init ==
    /\ args \in ArgChoices
    /\ fs = InitFs
    /\ sources = <<>>
    /\ operations = <<>>
    /\ text = <<>>
    /\ edits = 0
    /\ reject = NoReject
    /\ answer = "none"
    /\ pc = "sources"
    /\ i = 1
    /\ step = "begin"
    /\ processed = 0
    /\ error = "none"
    /\ given = EmptyPath
    /\ result = EmptyPath

\* let sources = &sources_from(args)?;
SourcesFrom ==
    /\ pc = "sources"
    /\ LET r == sources_from(fs, args)
       IN IF r.ok
          THEN /\ sources' = r.sources
               /\ pc' = "edit"
               /\ error' = error
          ELSE /\ sources' = sources
               /\ pc' = "error"
               /\ error' = r.error
    /\ UNCHANGED <<given, result, args, fs, operations, text, edits, reject, answer, i, step, processed>>

\* operations_from: text = edit::edit(&text)?, and the rest of the loop body
\* up to the prompt, the bail or the break.
Edit ==
    /\ pc = "edit"
    /\ edits < MaxEdits
    /\ \E edited \in EditorTexts(fs, sources) :
         LET r == EditRound(fs, sources, args, operations, edited)
         IN /\ operations' = r.operations
            /\ reject' = r.reject
            /\ pc' = AfterRound(args, r)
            /\ text' = IF r.reject.kind = "none" THEN edited ELSE <<>>
            /\ error' = IF AfterRound(args, r) = "error" THEN r.reject.reason ELSE error
    /\ edits' = edits + 1
    /\ UNCHANGED <<given, result, args, fs, sources, answer, i, step, processed>>

\* prompt_redo() returns true: continue 'redo
Redo ==
    /\ pc = "prompt"
    /\ edits < MaxEdits
    /\ answer' = "edit"
    /\ pc' = "edit"
    /\ UNCHANGED <<given, result, args, fs, sources, operations, text, edits, reject, i, step,
                   processed, error>>

\* prompt_redo() returns false: break 'redo, and Ok(operations)
Abort ==
    /\ pc = "prompt"
    /\ answer' = "abort"
    /\ pc' = "exec"
    /\ UNCHANGED <<given, result, args, fs, sources, operations, text, edits, reject, i, step,
                   processed, error>>

Executing == pc = "exec" /\ i <= Len(operations)

\* execute_operation with dry_run, had try_main counted it all the same.
DryRun_counted ==
    /\ Executing
    /\ args.dry_run
    /\ i' = i + 1
    /\ processed' = processed + 1
    /\ UNCHANGED <<given, result, args, fs, sources, operations, text, edits, reject, answer,
                   pc, step, error>>

\* execute_operation with dry_run: return Ok(()), and continue
DryRun ==
    /\ Executing
    /\ args.dry_run
    /\ i' = i + 1
    /\ UNCHANGED <<given, result, args, fs, sources, operations, text, edits, reject, answer,
                   pc, step, processed, error>>

\* execute_move, had it gone on without creating the parent directory.
CreateParent_skipping ==
    /\ Executing
    /\ ~args.dry_run
    /\ step = "begin"
    /\ step' = "relocate"
    /\ UNCHANGED <<given, result, args, fs, sources, operations, text, edits, reject, answer,
                   pc, i, processed, error>>

\* execute_move: create the parent directory if missing
CreateParent ==
    /\ Executing
    /\ ~args.dry_run
    /\ step = "begin"
    /\ LET o == operations[i]
           r == create_dir_all(fs, dst_parent(o))
       IN IF DstParentPanics(o)
          THEN pc' = "panic" /\ UNCHANGED <<fs, step, error>>
          ELSE IF Exists(fs, dst_parent(o))
          THEN step' = "relocate" /\ UNCHANGED <<fs, pc, error>>
          ELSE IF r.ok
          THEN fs' = r.fs /\ step' = "relocate" /\ UNCHANGED <<pc, error>>
          ELSE pc' = "error" /\ error' = "Failed to create directory"
               /\ UNCHANGED <<fs, step>>
    /\ UNCHANGED <<given, result, args, sources, operations, text, edits, reject, answer, i, processed>>

\* execute_move: move (copy) the source if its parent needs to be changed
Relocate ==
    /\ Executing
    /\ step = "relocate"
    /\ LET o == operations[i]
       IN IF NeedsRelocate(o)
          THEN \E r \in (IF args.copy
                         THEN copy_items(fs, o.src.path, dst_parent(o))
                         ELSE move_items(fs, o.src.path, dst_parent(o))) :
                 /\ fs' = r.fs
                 /\ IF r.ok
                    THEN step' = "rename" /\ UNCHANGED <<pc, error>>
                    ELSE /\ pc' = "error"
                         /\ error' = (IF args.copy THEN "Failed to copy" ELSE "Failed to move")
                         /\ step' = step
          ELSE step' = "rename" /\ UNCHANGED <<fs, pc, error>>
    /\ UNCHANGED <<given, result, args, sources, operations, text, edits, reject, answer, i, processed>>

\* execute_move: rename (copy) if the file name needs to be changed; then
\* try_main counts the operation.
Rename ==
    /\ Executing
    /\ step = "rename"
    /\ LET o == operations[i]
           r == IF args.copy THEN copy(fs, RenameFrom(o), RenameTo(o))
                ELSE rename(fs, RenameFrom(o), RenameTo(o))
           done == /\ i' = i + 1
                   /\ processed' = processed + 1
                   /\ step' = "begin"
                   /\ UNCHANGED <<pc, error>>
       IN IF RenamePanics(o)
          THEN pc' = "panic" /\ UNCHANGED <<fs, i, processed, step, error>>
          ELSE IF ~NeedsRename(o)
          THEN done /\ fs' = fs
          ELSE IF r.ok
          THEN done /\ fs' = r.fs
          ELSE /\ pc' = "error"
               /\ error' = (IF args.copy THEN "Failed to copy" ELSE "Failed to rename")
               /\ UNCHANGED <<fs, i, processed, step>>
    /\ UNCHANGED <<given, result, args, sources, operations, text, edits, reject, answer>>

\* try_main, had it gone back to the editor after the execution loop.
Return_reediting ==
    /\ pc = "exec"
    /\ i > Len(operations)
    /\ pc' = "edit"
    /\ UNCHANGED <<given, result, args, fs, sources, operations, text, edits, reject, answer,
                   i, step, processed, error>>

\* Ok(processed)
Return ==
    /\ pc = "exec"
    /\ i > Len(operations)
    /\ pc' = "done"
    /\ UNCHANGED <<given, result, args, fs, sources, operations, text, edits, reject, answer,
                   i, step, processed, error>>

Next ==
    \/ SourcesFrom
    \/ Edit
    \/ Redo
    \/ Abort
    \/ DryRun
    \/ CreateParent
    \/ Relocate
    \/ Rename
    \/ Return

Spec == Init /\ [][Next]_vars

----------------------------------------------------------------------------
(* normalize, called on its own *)

\* The sequences of at most n components.
RECURSIVE ComponentLists(_)
ComponentLists(n) ==
    IF n = 0 THEN { <<>> }
    ELSE LET shorter == ComponentLists(n - 1)
         IN shorter \cup { Append(cs, c) : cs \in shorter, c \in {"..", "a", "d"} }

\* The paths normalize is called with, as Path::components() yields them:
\* absolute or relative, a relative one possibly starting with ".".
GivenPaths ==
    { [root |-> root, comps |-> cs] : root \in BOOLEAN, cs \in ComponentLists(MaxComponents) }
    \cup
    { [root |-> FALSE, comps |-> <<".">> \o cs] : cs \in ComponentLists(MaxComponents - 1) }

NormalizeInit ==
    /\ given \in GivenPaths
    /\ result = EmptyPath
    /\ pc = "normalize"
    /\ args = Args(<<>>, FALSE, FALSE, "move", FALSE)
    /\ fs = InitFs
    /\ sources = <<>>
    /\ operations = <<>>
    /\ text = <<>>
    /\ edits = 0
    /\ reject = NoReject
    /\ answer = "none"
    /\ i = 1
    /\ step = "begin"
    /\ processed = 0
    /\ error = "none"

\* normalize(path)
Normalize ==
    /\ pc = "normalize"
    /\ result' = normalize(given)
    /\ pc' = "normalized"
    /\ UNCHANGED <<given, args, fs, sources, operations, text, edits, reject, answer,
                   i, step, processed, error>>

\* normalize, called on what it returned
Renormalize ==
    /\ pc = "normalized"
    /\ result' = normalize(result)
    /\ pc' = "renormalized"
    /\ UNCHANGED <<given, args, fs, sources, operations, text, edits, reject, answer,
                   i, step, processed, error>>

NormalizeNext ==
    \/ Normalize
    \/ Renormalize

NormalizeSpec == NormalizeInit /\ [][NormalizeNext]_vars

----------------------------------------------------------------------------
(* Sanity of the model *)

\* Every entry but the root lies in a directory.
FsIsTree ==
    /\ IsDirAt(fs, <<>>)
    /\ \A at \in DOMAIN fs : at # <<>> => IsDirAt(fs, Front(at))

----------------------------------------------------------------------------
(* Notions the properties use *)

MoveMode == ~args.copy /\ ~args.dry_run

\* operations_from has returned Ok(operations): the accepted batch.
Accepted == pc \in {"exec", "done"}

\* Nothing has been executed yet: the file system is as validation saw it.
BeforeExecution ==
    pc \in {"edit", "prompt"} \/ (pc = "exec" /\ i = 1 /\ step = "begin")

\* The places where the source of o, the entry that was at o.src.abs when the
\* sources were collected, is found by the steps of execute_move, with all
\* that lies below it.
OwnSource(f, o) ==
    { at \in DOMAIN f :
        \E l \in { Resolve(o.src.path), Resolve(RenameFrom(o)) } :
            l \in DOMAIN f /\ f[l].id = o.src.abs.comps /\ IsPrefix(l, at) }

\* The rename step of operation i is about to call std::fs::rename.
AtRename ==
    /\ Executing /\ MoveMode /\ step = "rename"
    /\ ~RenamePanics(operations[i]) /\ NeedsRename(operations[i])

\* The location of a path, with "." and ".." resolved.
Location(p) == Resolve(p)

----------------------------------------------------------------------------
(* C1 *)

\* Every entry that is not the operation's own source is left as it is.
OthersUntouched ==
    \A at \in DOMAIN fs \ OwnSource(fs, operations[i]) :
        at \in DOMAIN fs' /\ fs'[at] = fs[at]

\* No directory that existed, other than those on the way to dst_parent,
\* receives an entry.
NothingMergedInto ==
    \A at \in DOMAIN fs' \ DOMAIN fs :
        Front(at) \in DOMAIN fs
            => IsPrefix(Front(at), Resolve(dst_parent(operations[i])))

\* C1: No-overwrite.  In move mode no step of execute_move replaces, merges
\* into or deletes an entry other than the operation's own source, and
\* whenever the rename step runs its target does not exist.
C1_NoOverwrite ==
    /\ [](AtRename => ~Exists(fs, RenameTo(operations[i])))
    /\ [][(Executing /\ MoveMode) => (OthersUntouched /\ NothingMergedInto)]_vars

----------------------------------------------------------------------------
(* C2 *)

\* C2 as stated: in an accepted batch no destination path is an ancestor of,
\* equal to, or a descendant of another one, whichever was accepted first.
C2_Containment ==
    Accepted =>
        \A j, k \in 1..Len(operations) :
            j # k => operations[j].dst.path \notin Ancestors(operations[k].dst.path)

\* C2, amended: no destination path is an ancestor of, or equal to, the
\* destination path of an operation accepted before it (paths compared
\* component by component, as Path equality does).
C2_NoLaterAncestor ==
    \A j, k \in 1..Len(operations) :
        j < k => operations[k].dst.path \notin Ancestors(operations[j].dst.path)

\* An accepted batch in which a destination lies under the destination of an
\* operation accepted before it.
C2_Witness ==
    /\ Accepted
    /\ \E j, k \in 1..Len(operations) :
         /\ j < k
         /\ operations[j].dst.path \in Ancestors(operations[k].dst.path)

----------------------------------------------------------------------------
(* C3 *)

\* C3: Post-batch invariant.  After try_main returns Ok for a non-dry-run,
\* move-mode batch, the destination path of every executed operation exists
\* and its source path no longer exists.
C3_PostBatch ==
    (pc = "done" /\ MoveMode) =>
        \A k \in 1..Len(operations) :
            /\ Exists(fs, operations[k].dst.path)
            /\ ~Exists(fs, operations[k].src.path)

----------------------------------------------------------------------------
(* C4 *)

\* C4: Abort means zero mutation.  When the user aborts at the prompt after
\* a validation rejection, nothing is mutated and the processed count is 0.
C4_AbortNoMutation ==
    (answer = "abort" /\ reject.kind = "conflict") =>
        (fs = InitFs /\ processed = 0)

----------------------------------------------------------------------------
(* C5 *)

\* C5: Line-count mismatch never applies anything.  When the last edited
\* text has a number of non-blank lines other than the number of sources
\* (an error in strict mode, an abort in interactive mode), nothing is
\* executed and nothing is mutated.
C5_MismatchNoMutation ==
    (reject.kind = "count" /\ (pc = "error" \/ answer = "abort")) =>
        (fs = InitFs /\ processed = 0)

----------------------------------------------------------------------------
(* C6 *)

\* C6: Batch bound.  The list operations_from returns has at most one
\* operation per source, so it is no longer than the list of sources.
C6_BatchBound ==
    Accepted =>
        /\ Len(operations) <= Len(sources)
        /\ \A j, k \in 1..Len(operations) :
             j # k => operations[j].src.abs # operations[k].src.abs

----------------------------------------------------------------------------
(* C7 *)

\* The round just made has rejected a candidate: the prompt is up, or
\* operations_from has bailed in strict mode.
JustRejected ==
    reject.kind = "conflict" /\ (pc = "prompt" \/ (pc = "error" /\ args.oops))

\* The destination path of the rejected candidate.
RejectedDst == normalize(PathFrom(reject.text))

\* No accepted operation has a destination that exists when it is validated.
ExistingNeverAccepted ==
    BeforeExecution =>
        \A k \in 1..Len(operations) : ~Exists(fs, operations[k].dst.path)

\* C7 as stated: a candidate whose destination exists at validation time is
\* never accepted, whatever the other lines do with the entry that is there,
\* and it is rejected with 'Destination exists'.
C7_DestinationExists ==
    /\ ExistingNeverAccepted
    /\ (JustRejected /\ Exists(fs, RejectedDst)) => reject.reason = "Destination exists"

\* C7, amended: such a candidate is never accepted; it is rejected with
\* 'Destination exists', unless its destination is an ancestor of the
\* destination of an operation accepted before it, and then with
\* 'Destination should not be included in other destination'.
C7_ExistingRejected ==
    /\ ExistingNeverAccepted
    /\ (JustRejected /\ Exists(fs, RejectedDst)) =>
          reject.reason =
            IF \E k \in 1..Len(operations) :
                   RejectedDst \in Ancestors(operations[k].dst.path)
            THEN "Destination should not be included in other destination"
            ELSE "Destination exists"

\* The swap: a candidate is rejected with 'Destination exists' although a
\* line accepted before it moves away the entry that occupies its
\* destination.
C7_Witness ==
    /\ JustRejected
    /\ reject.reason = "Destination exists"
    /\ \E k \in 1..Len(operations) :
         Location(operations[k].src.path) = Location(RejectedDst)

----------------------------------------------------------------------------
(* C8 *)

RECURSIVE CollapseFrom(_, _, _)
CollapseFrom(root, acc, rest) ==
    IF rest = <<>> THEN acc
    ELSE LET c == Head(rest) IN
         IF c = "." THEN CollapseFrom(root, acc, Tail(rest))
         ELSE IF c = ".."
         THEN IF acc # <<>> /\ Last(acc) # ".."
              THEN CollapseFrom(root, Front(acc), Tail(rest))
              ELSE IF root THEN CollapseFrom(root, acc, Tail(rest))
              ELSE CollapseFrom(root, Append(acc, c), Tail(rest))
         ELSE CollapseFrom(root, Append(acc, c), Tail(rest))

\* The lexically collapsed form of a text: "." and ".." resolved without
\* looking at the file system.
Collapsed(line) ==
    [root |-> PathFrom(line).root,
     comps |-> CollapseFrom(PathFrom(line).root, <<>>, PathFrom(line).comps)]

\* C8: Duplicate destinations.  In an accepted batch the normalized
\* destinations are pairwise distinct, spellings that differ only by "." and
\* ".." segments counting as the same destination, and a candidate whose
\* normalized destination is that of an accepted operation is rejected with
\* 'Duplicated destination'.
C8_DistinctDestinations ==
    /\ Accepted =>
         \A j, k \in 1..Len(operations) :
             j # k => Collapsed(operations[j].dst.text) # Collapsed(operations[k].dst.text)
    /\ (JustRejected /\ \E k \in 1..Len(operations) :
                            Collapsed(operations[k].dst.text) = Collapsed(reject.text))
          => reject.reason = "Duplicated destination"

----------------------------------------------------------------------------
(* C9 *)

\* C9: Cycle rejection.  No accepted operation has a destination that is,
\* or lies under, its own source, however the two are spelled.
C9_NoCycle ==
    Accepted =>
        \A k \in 1..Len(operations) :
            ~IsPrefix(Location(operations[k].src.path), Location(operations[k].dst.path))

----------------------------------------------------------------------------
(* C10 *)

NotDry == [args EXCEPT !.dry_run = FALSE]

\* The round the editor's answer has just ended is one the same run without
\* dry_run can make: same operations, same rejection, same way on.
SameRoundWithoutDryRun ==
    (args.dry_run /\ pc = "edit" /\ pc' # "edit") =>
        \E edited \in EditorTexts(fs, sources) :
            LET r == EditRound(fs, sources, NotDry, operations, edited)
            IN /\ operations' = r.operations
               /\ reject' = r.reject
               /\ pc' = AfterRound(NotDry, r)

\* C10: Dry-run.  With dry_run nothing is ever mutated and the processed
\* count stays 0, while every edit round ends as it does without dry_run.
C10_DryRun ==
    /\ [](args.dry_run => (fs = InitFs /\ processed = 0))
    /\ [][SameRoundWithoutDryRun]_vars

\* A dry run has gone through an accepted batch of operations to the end.
C10_Witness ==
    /\ args.dry_run
    /\ pc = "done"
    /\ Len(operations) >= 1
    /\ i > Len(operations)

----------------------------------------------------------------------------
(* C11 *)

\* The position of a Source in the Source list.
SourceIndex(src) == CHOOSE k \in 1..Len(sources) : sources[k].abs = src.abs

\* The accepted operations follow the Source list: each concerns a Source
\* further down the list than the operation before it.
InSourceOrder ==
    \A j, k \in 1..Len(operations) :
        j < k => SourceIndex(operations[j].src) < SourceIndex(operations[k].src)

\* A step of the run keeps to the order of the list: the file system and the
\* count change only while operation i is being executed, i moves on by one
\* at a time and only after every operation before it was completed, and a
\* run that has failed does nothing more.
InListOrder ==
    /\ (fs' # fs \/ processed' # processed \/ i' # i) => Executing
    /\ i' \in {i, i + 1}
    /\ processed' \in {processed, processed + 1}
    /\ (Executing /\ ~args.dry_run) => processed = i - 1
    /\ pc \in {"error", "panic"} => UNCHANGED vars

\* C11: Ordered, non-transactional execution.  The accepted operations are
\* in Source order and try_main executes them in that order, one at a time;
\* when operation k fails the run halts on the spot: what operations
\* 1..k-1 did stays, and no later operation is attempted.
C11_OrderedExecution ==
    /\ [](Accepted => InSourceOrder)
    /\ [][InListOrder]_vars

\* The part of C11 about try_main alone.
C11_ListOrder == [][InListOrder]_vars

----------------------------------------------------------------------------
(* C12 *)

\* C12: Strict mode.  With oops set the editor is invoked once at most, the
\* redo prompt never comes up, and a line-count mismatch or a rejection ends
\* the run with an error that carries the reason, nothing having been
\* executed.
C12_StrictMode ==
    args.oops =>
        /\ edits <= 1
        /\ pc # "prompt"
        /\ answer = "none"
        /\ pc \in {"exec", "done"} => (edits = 1 /\ reject.kind = "none")
        /\ reject.kind # "none" =>
              /\ pc = "error"
              /\ error = reject.reason
              /\ fs = InitFs
              /\ processed = 0

\* A strict run has failed on the rejection of its second line, the first
\* having been accepted.
C12_Witness ==
    /\ args.oops
    /\ pc = "error"
    /\ reject.kind = "conflict"
    /\ reject.line = 2
    /\ Len(operations) = 1

----------------------------------------------------------------------------
(* C13 *)

NotBlank(line) == Trim(line) # <<>>

\* The lines of the accepted text, blank lines left out, as they were typed.
TypedText == SelectSeq(text, NotBlank)

\* The last round was accepted.
RoundAccepted == Accepted /\ reject.kind = "none"

\* The line displayed for a Source (the file system is as at the start
\* whenever the editor runs).
DisplayLine(src) == SerializedLine(InitFs, src)

\* C13: No-op invariant.  A Source whose line comes back as it was displayed
\* gets no Operation, and a text that comes back unchanged gives an empty
\* batch, no mutation and a processed count of 0.
C13_NoOp ==
    RoundAccepted =>
        /\ \A k \in 1..Len(sources) :
              TypedText[k] = DisplayLine(sources[k]) =>
                  \A j \in 1..Len(operations) : operations[j].src # sources[k]
        /\ TypedText = [k \in 1..Len(sources) |-> DisplayLine(sources[k])] =>
              (operations = <<>> /\ fs = InitFs /\ processed = 0)

\* C13 in a run whose first round is accepted.
C13_NoOpFirstRound == edits = 1 => C13_NoOp

----------------------------------------------------------------------------
(* C14 *)

\* The line typed for Source k ends with a separator although the Source is
\* a plain file or a symlink.
NamelessLine(k) ==
    /\ sources[k].meta \in {"file", "symlink"}
    /\ EndsWith(Trim(TypedText[k]), SEP)

\* No operation of a plain file or a symlink has a destination text that
\* ends with a separator.
NoNamelessOperation ==
    \A j \in 1..Len(operations) :
        operations[j].src.meta \in {"file", "symlink"}
            => ~EndsWith(operations[j].dst.text, SEP)

\* C14: MissingName.  A text in which the line of a plain file or of a
\* symlink ends with a separator is never accepted: the line is rejected
\* with 'Missing file name' and yields no operation.
C14_MissingName ==
    /\ RoundAccepted => \A k \in 1..Len(sources) : ~NamelessLine(k)
    /\ NoNamelessOperation

----------------------------------------------------------------------------
(* C15 *)

\* execute_move returns Ok for operation i with this step.
ReturnsOk == Executing /\ ~args.dry_run /\ step = "rename" /\ i' = i + 1

\* The source path has a parent component.
SourceHasParent(o) == HasParent(o.src.path) /\ ~IsEmptyPath(Parent(o.src.path))

\* The entry a Source stood for when it was collected is at path p in f.
SourceIsAt(f, o, p) ==
    /\ Exists(f, p)
    /\ f[Resolve(p)] = InitFs[o.src.abs.comps]

\* C15: Composed move+rename.  In move mode, for an accepted operation whose
\* source path has a parent component and whose destination parent does not
\* exist, execute_move creates the missing directories, and when it returns
\* Ok the entry is at the destination path with its original content and
\* nothing is at the source path any more.
C15_MoveAndRename ==
    [][ (Executing /\ MoveMode /\ SourceHasParent(operations[i])
           /\ ~Exists(InitFs, dst_parent(operations[i]))) =>
        LET o == operations[i] IN
        /\ (step = "begin" /\ step' = "relocate") =>
               (IsEmptyPath(dst_parent(o)) \/ IsDir(fs', dst_parent(o)))
        /\ ReturnsOk =>
               /\ SourceIsAt(fs', o, o.dst.path)
               /\ ~Exists(fs', o.src.path) ]_vars

\* The first operation has moved a Source into a directory two levels deep
\* that execute_move had to create, under another name.
C15_Witness ==
    /\ MoveMode /\ pc = "exec" /\ i = 2 /\ step = "begin"
    /\ LET o == operations[1] IN
       /\ SourceHasParent(o)
       /\ ~Exists(InitFs, dst_parent(o))
       /\ Len(dst_parent(o).comps) = 2
       /\ ~Exists(InitFs, Parent(dst_parent(o)))
       /\ fs[Resolve(dst_parent(o))] = NewDir
       /\ FileName(o.src.path) # FileName(o.dst.path)
       /\ SourceIsAt(fs, o, o.dst.path)
       /\ ~Exists(fs, o.src.path)

----------------------------------------------------------------------------
(* C16 *)

\* sources_from has returned, one way or the other.
Collected == pc # "sources"

\* sources_from has returned an error: no editor was invoked, nothing was
\* touched, there is no Source list.
CollectionFailed ==
    pc = "error" /\ edits = 0 /\ sources = <<>> /\ fs = InitFs /\ processed = 0

\* The locations of the entries the k-th pattern makes sources_from collect.
EntriesOf(k) ==
    LET at == Resolve(PathFrom(args.paths[k]))
    IN  IF at \notin DOMAIN InitFs THEN {}
        ELSE IF IsFileAt(InitFs, at) \/ args.directory THEN {at}
        ELSE { q \in DOMAIN InitFs : Len(q) = Len(at) + 1 /\ IsPrefix(at, q)
                                      /\ Last(q) \notin HiddenNames }

\* Two patterns make sources_from collect the same entry.
Overlapping ==
    \E j, k \in 1..Len(args.paths) : j < k /\ EntriesOf(j) \cap EntriesOf(k) # {}

\* C16: Dedup invariant.  The Sources that sources_from returns have
\* pairwise distinct abs, and when two collected entries are the same entry
\* it returns an error, before any edit or mutation.
C16_Dedup ==
    Collected =>
        /\ \A j, k \in 1..Len(sources) : j # k => sources[j].abs # sources[k].abs
        /\ Overlapping => CollectionFailed
        /\ error = "Duplicated source" => CollectionFailed

\* sources_from has failed on an entry that a directory and a second
\* pattern both brought in.
C16_Witness ==
    /\ Overlapping
    /\ Len(args.paths) = 2 /\ EntriesOf(1) # EntriesOf(2)
    /\ pc = "error"
    /\ error = "Duplicated source"

----------------------------------------------------------------------------
(* C19 *)

\* A pattern matches no path.
MatchesNothing(k) == ~Exists(InitFs, PathFrom(args.paths[k]))

\* A pattern names the root directory.
NamesRoot(k) == PathFrom(args.paths[k]).root /\ Resolve(PathFrom(args.paths[k])) = <<>>

\* C19: Collection errors.  sources_from returns an error, and no edit or
\* execution follows, when a pattern matches no path and when a collected
\* entry is the root directory.
C19_CollectionErrors ==
    (Collected /\ \E k \in 1..Len(args.paths) : MatchesNothing(k) \/ NamesRoot(k))
        => CollectionFailed

\* sources_from has failed on a second pattern that matches nothing, the
\* first one having given a Source.
C19_Witness ==
    /\ Len(args.paths) = 2
    /\ ~MatchesNothing(1) /\ ~NamesRoot(1)
    /\ MatchesNothing(2)
    /\ pc = "error" /\ error = "Failed to access"

----------------------------------------------------------------------------
(* C17 *)

\* The step leaves the source of operation i, with all that lies below it,
\* as it is.
SourceKept ==
    \A q \in Under(fs, Resolve(operations[i].src.path)) :
        q \in DOMAIN fs' /\ fs'[q] = fs[q]

\* C17: Copy mode preserves the original.  In copy mode no step of
\* execute_move changes the source, and when execute_move returns Ok the
\* source is still at its old location and the destination path exists,
\* for files and directories and for every shape of source path.
C17_CopyPreserves ==
    [][ (Executing /\ args.copy) =>
        /\ SourceKept
        /\ ReturnsOk =>
              /\ SourceIsAt(fs', operations[i], operations[i].src.path)
              /\ Exists(fs', operations[i].dst.path) ]_vars

\* The part of C17 about the source alone.
C17_SourceKept == [][ (Executing /\ args.copy) => SourceKept ]_vars

----------------------------------------------------------------------------
(* C18 *)

\* The subtree that the Source of o had when it was collected is under the
\* destination path in f, every entry at its relative position.
SubtreeIsAtDestination(f, o) ==
    \A q \in Under(InitFs, o.src.abs.comps) :
        LET at == Rebase(q, o.src.abs.comps, Resolve(o.dst.path))
        IN  at \in DOMAIN f /\ f[at] = InitFs[q]

\* C18: Directory rename.  When execute_move returns Ok in move mode for an
\* operation whose source is a directory, the whole subtree is under the
\* destination path, and nothing is left at or under the source path.
C18_DirectoryRename ==
    [][ (ReturnsOk /\ MoveMode /\ operations[i].src.meta = "dir") =>
        /\ SubtreeIsAtDestination(fs', operations[i])
        /\ Under(fs', Resolve(operations[i].src.path)) = {} ]_vars

\* C18 for the directories whose source path has a parent component.
C18_WithParent ==
    [][ (ReturnsOk /\ MoveMode /\ operations[i].src.meta = "dir"
           /\ SourceHasParent(operations[i])) =>
        /\ SubtreeIsAtDestination(fs', operations[i])
        /\ Under(fs', Resolve(operations[i].src.path)) = {} ]_vars

----------------------------------------------------------------------------
(* C20 *)

\* The round that this step ends comes out as the fold of its text alone,
\* started from an empty list of accepted operations.
FoldsLastTextAlone ==
    (pc = "edit" /\ pc' # "edit") =>
        \E edited \in EditorTexts(fs, sources) :
            LET r == EditRound(fs, sources, args, <<>>, edited)
            IN /\ reject' = r.reject
               /\ r.reject.kind = "none" =>
                     (operations' = r.operations /\ text' = edited)

\* C20: Redo starts a fresh batch.  Whatever rounds were rejected before,
\* a round is decided by its own text folded from an empty list: what an
\* earlier round accepted neither gets a line of the new text rejected nor
\* stays in the batch.
C20_FreshBatch ==
    /\ [][FoldsLastTextAlone]_vars
    /\ [](RoundAccepted =>
            operations = EditRound(InitFs, sources, args, <<>>, text).operations)

----------------------------------------------------------------------------
(* C21 *)

\* Something has been executed: the file system was touched or an operation
\* was completed.
Mutated == fs # InitFs \/ processed > 0 \/ i > 1 \/ step # "begin"

\* The step is an editor invocation, an answer at the prompt or a round of
\* validation.
EditPromptOrValidation ==
    \/ edits' # edits
    \/ answer' # answer
    \/ reject' # reject
    \/ operations' # operations
    \/ pc \in {"sources", "edit", "prompt"}

\* C21: Validate-all-before-mutate.  Every editor invocation, every prompt
\* and every validation comes before the first mutation: while the run is
\* collecting, editing or prompting nothing has been executed, and once
\* something has been executed no edit, prompt or validation follows.
C21_ValidateBeforeMutate ==
    /\ [](pc \in {"sources", "edit", "prompt"} => ~Mutated)
    /\ [][Mutated => ~EditPromptOrValidation]_vars
    /\ [][EditPromptOrValidation => (fs' = fs /\ processed' = processed)]_vars

\* A run with a rejected round, a redo and an accepted round has mutated the
\* file system.
C21_Witness ==
    /\ edits = 2
    /\ answer = "edit"
    /\ pc = "done"
    /\ fs # InitFs
    /\ processed >= 1

----------------------------------------------------------------------------
(* C22 *)

\* The directory the source of o lies in, and the destination parent, as
\* locations.
SourceParentLocation(o) == Resolve(Parent(o.src.path))
DestinationParentLocation(o) == Resolve(dst_parent(o))

\* execute_move is at its relocate step, or at its rename step, for
\* operation i.
AtRelocateStep == Executing /\ ~args.dry_run /\ step = "relocate"
AtRenameStep ==
    Executing /\ ~args.dry_run /\ step = "rename" /\ ~RenamePanics(operations[i])

\* The relocate step acts exactly when the two parents are different
\* locations.
RelocateGuard ==
    AtRelocateStep =>
        (NeedsRelocate(operations[i])
            <=> SourceParentLocation(operations[i]) # DestinationParentLocation(operations[i]))

\* A relocate step that acts and succeeds leaves the entry in the
\* destination parent under its own base name.
RelocateEffect ==
    (AtRelocateStep /\ NeedsRelocate(operations[i]) /\ step' = "rename") =>
        SourceIsAt(fs', operations[i],
                   Join(dst_parent(operations[i]), FileName(operations[i].src.path)))

\* The rename step acts exactly when the base names differ, and when it
\* succeeds in move mode only the base name has changed.
RenameEffect ==
    AtRenameStep =>
        /\ (fs' # fs) => NeedsRename(operations[i])
        /\ (NeedsRename(operations[i]) /\ i' = i + 1 /\ MoveMode) =>
              /\ SourceIsAt(fs', operations[i], RenameTo(operations[i]))
              /\ ~Exists(fs', RenameFrom(operations[i]))

\* C22: Relocate/rename step guards.  execute_move relocates exactly when
\* the parent of the source and the parent of the destination are different
\* locations, a bare source name counting as lying in the working
\* directory, and leaves the entry in the destination parent under its own
\* base name; it renames exactly when the base names differ, and changes
\* the base name only.
C22_StepGuards ==
    /\ [](RelocateGuard)
    /\ [][RelocateEffect /\ RenameEffect]_vars

----------------------------------------------------------------------------
(* C23 *)

\* What a rejection record says about line k: "ok" when the line is
\* passed, the reason when it is the rejected line, "not reached" when an
\* earlier line was rejected.
OutcomeIn(rejected, k) ==
    IF rejected.kind = "none" \/ rejected.line > k THEN "ok"
    ELSE IF rejected.line = k THEN rejected.reason
    ELSE "not reached"

\* The outcome of line k in the round that the editor's text `edited` gets
\* in the current state.
OutcomeNow(edited, k) ==
    OutcomeIn(EditRound(fs, sources, args, operations, edited).reject, k)

\* The outcome of line k as lines 1..k, the Sources and the file system
\* before the batch determine it.
OutcomeByPrefix(edited, k) ==
    OutcomeIn(Fold(InitFs, sources, SubSeq(ParseLines(edited), 1, k), <<>>, 1).reject, k)

\* The texts with as many lines as there are Sources.
FullTexts ==
    { edited \in EditorTexts(fs, sources) : Len(ParseLines(edited)) = Len(sources) }

\* C23: Order-sensitive fold.  In an edit round the outcome of line k,
\* accepted or rejected and for what reason, is determined by lines 1..k,
\* the Sources and the file system before the batch; so texts that agree on
\* lines 1..k agree on line k, and the rejection reported is that of the
\* first line in conflict with the lines before it.
C23_OrderSensitiveFold ==
    pc = "edit" =>
        \A edited \in FullTexts : \A k \in 1..Len(sources) :
            OutcomeNow(edited, k) = OutcomeByPrefix(edited, k)

\* C23 in the first round of a run.
C23_FirstRound == edits = 0 => C23_OrderSensitiveFold

----------------------------------------------------------------------------
(* C24 *)

\* A line without the surrounding whitespace and the trailing separators.
Trimmed(line) == TrimEndMatches(Trim(line), SEPARATORS)

\* Line k of a text among its lines that are not blank, trimmed.
RemainingLine(edited, k) == Trimmed(SelectSeq(edited, NotBlank)[k])

\* The remaining line k names Source k itself.
NamesItself(edited, k) ==
    normalize(PathFrom(RemainingLine(edited, k))) \in {sources[k].path, sources[k].abs}

\* The round r of a text whose remaining lines are `remaining` pairs line k
\* with Source k: the round is refused for its count exactly when the counts
\* differ, and otherwise every operation it adds is that of a Source and of
\* the line at its position, every line the fold passes gives that
\* operation unless it names the Source itself, and a rejection is about
\* the line at its position.
Pairs(r, remaining) ==
    LET first == Len(operations) + 1
        passed == IF r.reject.kind = "none" THEN Len(sources) ELSE r.reject.line - 1
        Itself(k) == normalize(PathFrom(remaining[k])) \in {sources[k].path, sources[k].abs}
        AddedFor(k) == \E j \in first..Len(r.operations) :
                            /\ r.operations[j].src = sources[k]
                            /\ r.operations[j].dst.text = remaining[k]
    IN  /\ r.reject.kind = "count" <=> Len(remaining) # Len(sources)
        /\ r.reject.kind # "count" =>
             /\ \A j \in first..Len(r.operations) :
                   \E k \in 1..passed :
                       /\ r.operations[j].src = sources[k]
                       /\ r.operations[j].dst.text = remaining[k]
             /\ \A k \in 1..passed : Itself(k) \/ AddedFor(k)
             /\ r.reject.kind = "conflict" => r.reject.text = remaining[r.reject.line]

PairedByPosition(edited) ==
    \A r \in { EditRound(fs, sources, args, operations, edited) } :
        \A remaining \in { [k \in 1..Len(SelectSeq(edited, NotBlank)) |->
                                Trimmed(SelectSeq(edited, NotBlank)[k])] } :
            Pairs(r, remaining)

\* A text with a blank line put in after its line p.
WithBlank(edited, p) ==
    SubSeq(edited, 1, p) \o <<<<WS>>>> \o SubSeq(edited, p + 1, Len(edited))

\* A blank line, wherever it is put, leaves the lines that the round folds
\* as they were.
BlankLinesIgnored(edited) ==
    \A p \in 0..Len(edited) : ParseLines(WithBlank(edited, p)) = ParseLines(edited)

\* The displayed text with lines m and n exchanged retargets Source m to
\* the text of Source n: neither line is taken for a no-op, and the round
\* is rejected at line m with that text.
ExchangeRetargets(m, n) ==
    LET initial == InitialText(fs, sources)
        exchanged == [p \in 1..Len(sources) |->
                         IF p = m THEN initial[n] ELSE IF p = n THEN initial[m] ELSE initial[p]]
        r == EditRound(fs, sources, args, operations, exchanged)
    IN  /\ ~NamesItself(exchanged, m)
        /\ ~NamesItself(exchanged, n)
        /\ r.reject.kind = "conflict"
        /\ r.reject.line = m
        /\ r.reject.text = RemainingLine(initial, n)

\* C24: Positional correspondence.  With blank lines discarded and the
\* others trimmed of surrounding whitespace and trailing separators, the
\* i-th remaining line is paired with the i-th Source and no other,
\* whatever the lines say; a blank line put in anywhere changes nothing, and
\* exchanging two lines retargets each Source to the other's text instead
\* of giving a no-op.
C24_PositionalCorrespondence ==
    pc = "edit" =>
        /\ \A edited \in EditorTexts(fs, sources) :
              PairedByPosition(edited) /\ BlankLinesIgnored(edited)
        /\ \A m, n \in 1..Len(sources) : m < n => ExchangeRetargets(m, n)

\* An accepted text with a blank line after its first line, whose first
\* line has moved Source 1 to x.
C24_Witness ==
    /\ pc = "done"
    /\ Len(sources) = 2
    /\ Len(text) = 3
    /\ ~NotBlank(text[2])
    /\ Len(operations) = 1
    /\ operations[1].src = sources[1]
    /\ operations[1].dst.text = <<"x">>
    /\ processed = 1

----------------------------------------------------------------------------
(* C25 *)

\* The k-th pattern is a directory whose expansion admits no child.
AdmitsNoChild(k) ==
    /\ Exists(InitFs, PathFrom(args.paths[k]))
    /\ IsDirAt(InitFs, Resolve(PathFrom(args.paths[k])))
    /\ EntriesOf(k) = {}

\* sources_from fails on every directory pattern among `patterns` that
\* admits no child, and reports an empty directory only for such a pattern.
EmptyDirectoryFails(patterns) ==
    Collected =>
        /\ (~args.directory /\ \E k \in patterns : AdmitsNoChild(k)) => CollectionFailed
        /\ error = "Directory is empty" =>
              /\ CollectionFailed
              /\ ~args.directory
              /\ \E k \in 1..Len(args.paths) : AdmitsNoChild(k)

\* C25: Empty-directory error.  With directoryMode off, every directory
\* pattern whose expansion admits no child makes sources_from fail, whether
\* or not earlier patterns have given Sources, and a directory that admits
\* children never gives this error.
C25_EmptyDirectoryError == EmptyDirectoryFails(1..Len(args.paths))

\* C25 for the first pattern of the command line.
C25_FirstPattern == EmptyDirectoryFails({1})

----------------------------------------------------------------------------
(* C26 *)

\* The number of ".." components a component list starts with.
RECURSIVE LeadingParents(_)
LeadingParents(cs) ==
    IF cs # <<>> /\ Head(cs) = ".." THEN 1 + LeadingParents(Tail(cs)) ELSE 0

\* normalize has returned.
Normalized == pc \in {"normalized", "renormalized"}

\* What normalize returned names the location that the given path names.
SameLocation == Location(normalize(given)) = Location(given)

\* A relative path keeps the ".." components it starts with: what normalize
\* returned starts with as many at least.
KeepsLeadingParents ==
    ~given.root => LeadingParents(normalize(given).comps) >= LeadingParents(given.comps)

\* normalize returns what it returned when called on it.
Idempotent == pc = "renormalized" => result = normalize(given)

\* C26: Lexical normalization.  normalize(path) denotes the location that
\* path denotes: a ".." cancels only the normal component just before it,
\* and a ".." with no normal component to cancel is kept, so that a
\* relative path with k leading ".." keeps exactly k of them; and normalize
\* is idempotent.
C26_LexicalNormalization ==
    Normalized =>
        /\ result = (IF pc = "normalized" THEN normalize(given) ELSE result)
        /\ SameLocation
        /\ KeepsLeadingParents
        /\ Idempotent

\* The given path has at most one ".." and does not start with ".".
AtMostOneParent ==
    /\ Cardinality({ k \in 1..Len(given.comps) : given.comps[k] = ".." }) <= 1
    /\ (given.comps = <<>> \/ Head(given.comps) # ".")

\* C26 for the paths with at most one "..".
C26_OneParent ==
    (Normalized /\ AtMostOneParent) => (SameLocation /\ KeepsLeadingParents)

\* normalize is idempotent.
C26_Idempotent == Idempotent

----------------------------------------------------------------------------
(* C27 *)

\* The execution of the batch has failed: a step of execute_move returned an
\* error or panicked.
ExecutionFailed ==
    \/ pc = "panic"
    \/ pc = "error" /\ error \in { "Failed to create directory", "Failed to move",
                                   "Failed to copy", "Failed to rename" }

\* Operation i is reached: execute_move is about to start on it.
Reached == Executing /\ ~args.dry_run /\ step = "begin"

\* C27: Accepted batches are executable.  In move mode a batch that
\* operations_from returned executes to completion: when an operation is
\* reached its source is still at its recorded path, and neither the
\* relocate nor the rename step fails, even when an earlier operation has
\* moved a directory that holds the source or the destination parent holds
\* an entry with the source's base name.
C27_AcceptedIsExecutable ==
    MoveMode =>
        /\ ~ExecutionFailed
        /\ Reached => SourceIsAt(fs, operations[i], operations[i].src.path)

\* In move mode the first operation of a batch is reached with its source
\* at its recorded path.
C27_FirstOperationReached ==
    (MoveMode /\ Reached /\ i = 1) => SourceIsAt(fs, operations[i], operations[i].src.path)

----------------------------------------------------------------------------
(* C28 *)

\* The entries that the execution has added so far.
Added == DOMAIN fs \ DOMAIN InitFs

\* Where operation o may add entries: at and under its destination, and at
\* the ancestor directories of its destination.
MayAdd(o, at) ==
    IsPrefix(Resolve(o.dst.path), at) \/ IsPrefix(at, Resolve(o.dst.path))

\* Operation o changes the parent directory and the base name.
ChangesBoth(o) == NeedsRelocate(o) /\ NeedsRename(o)

\* Between two operations of a copy-mode batch, and after the last one.
BetweenCopies == args.copy /\ ~args.dry_run /\ Accepted /\ step = "begin"

\* Every entry added is one that an operation among `done` may add.
OnlyDestinationsAdded(done) ==
    \A at \in Added : \E k \in done : MayAdd(operations[k], at)

\* C28: Copy mode creates only the destination.  In copy mode an accepted
\* operation that changes both parent and base name adds the destination,
\* with the ancestor directories that were missing, and nothing else: no
\* copy is left at (destinationParent, originalBasename), for a later copy
\* step of the batch to land on.
C28_CopyCreatesOnlyDestination ==
    BetweenCopies => OnlyDestinationsAdded(1..(i - 1))

\* C28 for the batches none of whose operations changes both parent and
\* base name.
C28_OneChange ==
    (BetweenCopies /\ \A k \in 1..(i - 1) : ~ChangesBoth(operations[k]))
        => OnlyDestinationsAdded(1..(i - 1))

====
